---- MODULE Spec2Model ----
(***************************************************************************)
(* Helperly RAG backend: origin validation, chatbox CRUD, vector           *)
(* similarity search, the query pipeline, the chunker, the embedder, the   *)
(* answerer and ingestion, modelled from src/backend/app.                  *)
(*                                                                         *)
(* Conventions                                                             *)
(*   - a Python str is a sequence of characters over Alphabet;             *)
(*   - Python None is NoneStr where a str is expected, NoneList where a    *)
(*     list[str] is expected and NoneInt where an int is expected;         *)
(*   - a similarity score is an integer number of tenths (10 is 1.0);      *)
(*   - a call either returns or raises: Returned(v) / Raised(e).           *)
(***************************************************************************)
EXTENDS Integers, Sequences, FiniteSets, TLC

VARIABLES
    chatboxes,   \* persisted chatbox rows, id = position
    documents,   \* persisted document rows, id = position
    chunks,      \* persisted chunk rows, id = position
    service,     \* the EmbeddingService singleton and its provider
    engine_ok,   \* whether the vector engine call of a search succeeds
    request,     \* the arguments of the call being handled
    pc,          \* position of the handler
    calls,       \* collaborator calls made by the handler, in order
    response,    \* what the handler returned or raised
    locals       \* local variables of the function being executed

vars ==
    <<chatboxes, documents, chunks, service, engine_ok, request, pc, calls, response,
      locals>>

----------------------------------------------------------------------------
(* Bounds *)

MaxStrLen == 2

MaxDomains == 1

MaxChatboxes == 2

MaxChunks == 2

MaxTopK == 2

----------------------------------------------------------------------------
(* Python values *)

Alphabet == {"a", "A", "/"}

NoneStr == <<"None">>

NoneList == <<NoneStr>>

NoneInt == -1

\* an EmbeddingService / LLMService pair built without an API key
StubService(seed) ==
    [openai_client |-> FALSE, embed_ok |-> FALSE, embed_data |-> <<>>,
     llm_ok |-> FALSE, hash_seed |-> seed]

StrUpTo(n) == UNION {[1..k -> Alphabet] : k \in 0..n}

ListsUpTo(S, n) == UNION {[1..k -> S] : k \in 0..n}

Min(a, b) == IF a <= b THEN a ELSE b

Returned(v) == [raised |-> FALSE, value |-> v]

Raised(e) == [raised |-> TRUE, exc |-> e]

\* str.lower() on the modelled alphabet
LowerChar(c) == IF c = "A" THEN "a" ELSE c

Lower(s) == [i \in 1..Len(s) |-> LowerChar(s[i])]

\* str.rstrip(ch): removes every trailing occurrence of ch
RECURSIVE RStrip(_, _)
RStrip(s, ch) ==
    IF s # <<>> /\ s[Len(s)] = ch
    THEN RStrip(SubSeq(s, 1, Len(s) - 1), ch)
    ELSE s

----------------------------------------------------------------------------
(* core/exceptions.py *)

ValidationError(message) ==
    [type |-> "ValidationError", message |-> message, code |-> "VALIDATION_ERROR"]

NotFoundError(message) ==
    [type |-> "NotFoundError", message |-> message, code |-> "NOT_FOUND"]

ForbiddenError(message) ==
    [type |-> "ForbiddenError", message |-> message, code |-> "FORBIDDEN"]

ExternalServiceError(message, svc) ==
    [type |-> "ExternalServiceError", message |-> message,
     code |-> "EXTERNAL_SERVICE_ERROR", service |-> svc]

\* subclass of ForbiddenError: same code, plus the origin attribute
OriginNotAllowedError(origin) ==
    [type |-> "OriginNotAllowedError",
     message |-> "Origin is not allowed for this chatbox",
     code |-> "FORBIDDEN", origin |-> origin]

\* the built-in raised by subscripting a coroutine object
TypeError(message) == [type |-> "TypeError", message |-> message]

\* isinstance(e, ForbiddenError)
IsForbiddenError(e) == e.type \in {"ForbiddenError", "OriginNotAllowedError"}

\* isinstance(e, HelperlyException)
IsHelperlyException(e) ==
    e.type \in {"ValidationError", "NotFoundError", "UnauthorizedError",
                "ForbiddenError", "RateLimitError", "ExternalServiceError",
                "OriginNotAllowedError"}

----------------------------------------------------------------------------
(* services/query_service.py: validate_origin *)

\* Python truthiness: "not origin" for an Optional[str]
FalsyStr(v) == v = NoneStr \/ v = <<>>

\* Python truthiness: "not allowed_domains" for an Optional[list[str]]
FalsyList(v) == v = NoneList \/ v = <<>>

\* variant: rstrip("/") without lower()
NormalizeOrigin_NoLower(s) == RStrip(s, "/")

\* origin.lower().rstrip("/")
NormalizeOrigin(s) == RStrip(Lower(s), "/")

\* variant: without the early return of lines 48-50
ValidateOrigin_AlwaysEnforce(chatbox, origin) ==
    IF FalsyStr(origin)
    THEN Raised(ForbiddenError("Origin header is required for this chatbox"))
    ELSE IF FalsyList(chatbox.allowed_domains)
    THEN Raised(ForbiddenError("No allowed domains configured for this chatbox"))
    ELSE IF \A i \in 1..Len(chatbox.allowed_domains) :
                NormalizeOrigin(chatbox.allowed_domains[i]) # NormalizeOrigin(origin)
    THEN Raised(OriginNotAllowedError(origin))
    ELSE Returned(NoneStr)

\* variant: OriginNotAllowedError built from the normalized origin
ValidateOrigin_NormalizedAttr(chatbox, origin) ==
    IF ~chatbox.enforce_allowed_domains
    THEN Returned(NoneStr)
    ELSE IF FalsyStr(origin)
    THEN Raised(ForbiddenError("Origin header is required for this chatbox"))
    ELSE IF FalsyList(chatbox.allowed_domains)
    THEN Raised(ForbiddenError("No allowed domains configured for this chatbox"))
    ELSE IF \A i \in 1..Len(chatbox.allowed_domains) :
                NormalizeOrigin(chatbox.allowed_domains[i]) # NormalizeOrigin(origin)
    THEN Raised(OriginNotAllowedError(NormalizeOrigin(origin)))
    ELSE Returned(NoneStr)

\* validate_origin
ValidateOrigin(chatbox, origin) ==
    IF ~chatbox.enforce_allowed_domains
    THEN Returned(NoneStr)
    ELSE IF FalsyStr(origin)
    THEN Raised(ForbiddenError("Origin header is required for this chatbox"))
    ELSE IF FalsyList(chatbox.allowed_domains)
    THEN Raised(ForbiddenError("No allowed domains configured for this chatbox"))
    ELSE IF \A i \in 1..Len(chatbox.allowed_domains) :
                NormalizeOrigin(chatbox.allowed_domains[i]) # NormalizeOrigin(origin)
    THEN Raised(OriginNotAllowedError(origin))
    ELSE Returned(NoneStr)

----------------------------------------------------------------------------
(* validate_origin applied to every chatbox and origin within the bounds *)

Origins == StrUpTo(MaxStrLen) \cup {NoneStr}

DomainLists == ListsUpTo(StrUpTo(MaxStrLen), MaxDomains) \cup {NoneList}

OriginChatboxes ==
    [id : {1}, enforce_allowed_domains : BOOLEAN, allowed_domains : DomainLists]

InitOrigin ==
    /\ chatboxes = <<>>
    /\ documents = <<>>
    /\ chunks = <<>>
    /\ service = StubService(0)
    /\ engine_ok = TRUE
    /\ request \in [chatbox : OriginChatboxes, origin : Origins]
    /\ pc = "call"
    /\ calls = <<>>
    /\ response = Returned(NoneStr)
    /\ locals = <<>>

ValidateOriginCall ==
    /\ pc = "call"
    /\ response' = ValidateOrigin(request.chatbox, request.origin)
    /\ calls' = Append(calls, "validate_origin")
    /\ pc' = "returned"
    /\ UNCHANGED <<chatboxes, documents, chunks, service, engine_ok, request, locals>>

NextOrigin == ValidateOriginCall

SpecOrigin == InitOrigin /\ [][NextOrigin]_vars

----------------------------------------------------------------------------
(* Claims on validate_origin, checked under SpecOrigin *)

\* the statement's own normalisations, written without the model's operators
StripOneSlash(s) ==
    IF s # <<>> /\ s[Len(s)] = "/" THEN SubSeq(s, 1, Len(s) - 1) ELSE s

\* the longest prefix of s that does not end with a slash
StripAllSlashes(s) ==
    LET keep == {k \in 0..Len(s) : k = 0 \/ s[k] # "/"}
        last == CHOOSE k \in keep : \A j \in keep : j <= k
    IN  SubSeq(s, 1, last)

LowerCased(s) == [i \in 1..Len(s) |-> IF s[i] = "A" THEN "a" ELSE s[i]]

NormOne(s) == StripOneSlash(LowerCased(s))

NormAll(s) == StripAllSlashes(LowerCased(s))

OriginReturned == pc = "returned"

Enforcing == request.chatbox.enforce_allowed_domains

AllowListEmpty == request.chatbox.allowed_domains \in {NoneList, <<>>}

\* the code's own notion of a missing origin: None or the empty string
OriginMissing == request.origin \in {NoneStr, <<>>}

MatchesSome(norm(_)) ==
    \E i \in 1..Len(request.chatbox.allowed_domains) :
        norm(request.chatbox.allowed_domains[i]) = norm(request.origin)

\* C4: with enforce_allowed_domains = false validate_origin returns normally
\* for every origin (None, listed or not) and every allow-list (None, empty
\* or not).
C4_NotEnforcingAcceptsAll ==
    (OriginReturned /\ ~Enforcing) => ~response.raised

C4_Witness ==
    /\ OriginReturned /\ ~Enforcing /\ ~response.raised
    /\ request.origin = <<"A">>
    /\ request.chatbox.allowed_domains = << <<"/">> >>

\* C5: with enforce_allowed_domains = true, a missing origin raises
\* ForbiddenError; an empty (or None) allow-list raises ForbiddenError for
\* every origin; a supplied origin matching no entry raises
\* OriginNotAllowedError, a ForbiddenError with code FORBIDDEN whose origin
\* attribute is the origin as supplied. None of the three cases returns.
C5_EnforcingRejects ==
    (OriginReturned /\ Enforcing) =>
        /\ OriginMissing =>
              /\ response.raised
              /\ response.exc.type = "ForbiddenError"
        /\ AllowListEmpty =>
              /\ response.raised
              /\ response.exc.type = "ForbiddenError"
        /\ (~OriginMissing /\ ~AllowListEmpty /\ ~MatchesSome(NormAll)) =>
              /\ response.raised
              /\ response.exc.type = "OriginNotAllowedError"
              /\ IsForbiddenError(response.exc)
              /\ response.exc.code = "FORBIDDEN"
              /\ response.exc.origin = request.origin

C5_Witness ==
    /\ OriginReturned /\ Enforcing
    /\ request.origin = <<"A", "/">>
    /\ request.chatbox.allowed_domains = << <<"/">> >>
    /\ response.raised
    /\ response.exc.type = "OriginNotAllowedError"

\* C6 as amended: for an enforcing chatbox with a non-empty allow-list and a
\* supplied origin, validate_origin accepts if and only if the origin equals
\* some entry after both are lowercased and stripped of every trailing slash.
C6_AcceptsIffNormalizedMatch ==
    (OriginReturned /\ Enforcing /\ ~AllowListEmpty /\ ~OriginMissing) =>
        (~response.raised <=> MatchesSome(NormAll))

\* an origin that differs from the entry by case and one trailing slash
C6_Witness ==
    /\ OriginReturned /\ Enforcing
    /\ request.origin = <<"A", "/">>
    /\ request.chatbox.allowed_domains = << <<"a">> >>
    /\ ~response.raised

\* C6 as stated: the same with a normalisation that strips one trailing slash
C6_Original_SingleSlash ==
    (OriginReturned /\ Enforcing /\ ~AllowListEmpty /\ ~OriginMissing) =>
        (~response.raised <=> MatchesSome(NormOne))

----------------------------------------------------------------------------
(* api/routes/chatboxes.py: create_chatbox and update_chatbox, one request  *)
(* at a time. Each request has its own session: a request that raises is    *)
(* rolled back (core/database.py get_db), one that returns has committed.   *)
(* name and description are left out: no check reads them.                  *)

CrudDomainLists ==
    ListsUpTo({<<"a">>, <<"A", "/">>}, MaxDomains) \cup {NoneList}

\* schemas/chatbox.py ChatboxCreate
ChatboxCreate ==
    [allowed_domains : CrudDomainLists, enforce_allowed_domains : BOOLEAN]

\* schemas/chatbox.py ChatboxUpdate; an omitted enforce_allowed_domains
\* (None) is a record without that field, an omitted allowed_domains is
\* NoneList
ChatboxUpdate ==
    [allowed_domains : CrudDomainLists]
        \cup [allowed_domains : CrudDomainLists, enforce_allowed_domains : BOOLEAN]

\* ChatboxRepository.get_by_id
GetChatboxById(rows, chatbox_id) ==
    IF chatbox_id \in DOMAIN rows
    THEN Returned(rows[chatbox_id])
    ELSE Raised(NotFoundError("Chatbox not found"))

\* the handler's check, "enforce_allowed_domains and not allowed_domains"
MissingAllowedDomains(c) ==
    c.enforce_allowed_domains /\ FalsyList(c.allowed_domains)

\* create_chatbox: the rows after the request and its response
CreateChatboxResult(rows, org_id, data) ==
    IF MissingAllowedDomains(data)
    THEN [rows |-> rows,
          response |-> Raised(ValidationError(
              "allowed_domains is required when enforce_allowed_domains is True"))]
    ELSE LET chatbox == [id |-> Len(rows) + 1,
                         organization_id |-> org_id,
                         allowed_domains |-> data.allowed_domains,
                         enforce_allowed_domains |-> data.enforce_allowed_domains]
         IN  [rows |-> Append(rows, chatbox), response |-> Returned(chatbox)]

\* update_chatbox lines 108-115: only the fields given are assigned
ApplyUpdate(chatbox, data) ==
    [chatbox EXCEPT
        !.allowed_domains =
            IF data.allowed_domains # NoneList THEN data.allowed_domains ELSE @,
        !.enforce_allowed_domains =
            IF "enforce_allowed_domains" \in DOMAIN data
            THEN data.enforce_allowed_domains ELSE @]

\* variant: update_chatbox without the check of lines 117-121
UpdateChatboxResult_NoValidation(rows, chatbox_id, data) ==
    LET found == GetChatboxById(rows, chatbox_id)
    IN  IF found.raised
        THEN [rows |-> rows, response |-> found]
        ELSE LET chatbox == ApplyUpdate(found.value, data)
             IN  [rows |-> [rows EXCEPT ![chatbox_id] = chatbox],
                  response |-> Returned(chatbox)]

\* update_chatbox: the rows after the request and its response
UpdateChatboxResult(rows, chatbox_id, data) ==
    LET found == GetChatboxById(rows, chatbox_id)
    IN  IF found.raised
        THEN [rows |-> rows, response |-> found]
        ELSE LET chatbox == ApplyUpdate(found.value, data)
             IN  IF MissingAllowedDomains(chatbox)
                 THEN [rows |-> rows,
                       response |-> Raised(ValidationError(
                           "allowed_domains is required when enforce_allowed_domains is True"))]
                 ELSE [rows |-> [rows EXCEPT ![chatbox_id] = chatbox],
                       response |-> Returned(chatbox)]

\* dependencies.py get_current_org_id
CurrentOrgId == 1

InitChatbox ==
    /\ chatboxes = <<>>
    /\ documents = <<>>
    /\ chunks = <<>>
    /\ service = StubService(0)
    /\ engine_ok = TRUE
    /\ request = [op |-> "none"]
    /\ pc = "idle"
    /\ calls = <<>>
    /\ response = Returned(NoneStr)
    /\ locals = <<>>

CreateChatbox ==
    /\ Len(chatboxes) < MaxChatboxes
    /\ \E data \in ChatboxCreate :
        LET r == CreateChatboxResult(chatboxes, CurrentOrgId, data)
        IN  /\ chatboxes' = r.rows
            /\ response' = r.response
            /\ request' = [op |-> "create", data |-> data]
    /\ UNCHANGED <<documents, chunks, service, engine_ok, pc, calls, locals>>

UpdateChatbox ==
    /\ \E chatbox_id \in 1..MaxChatboxes, data \in ChatboxUpdate :
        LET r == UpdateChatboxResult(chatboxes, chatbox_id, data)
        IN  /\ chatboxes' = r.rows
            /\ response' = r.response
            /\ request' = [op |-> "update", chatbox_id |-> chatbox_id, data |-> data]
    /\ UNCHANGED <<documents, chunks, service, engine_ok, pc, calls, locals>>

NextChatbox == CreateChatbox \/ UpdateChatbox

SpecChatbox == InitChatbox /\ [][NextChatbox]_vars

----------------------------------------------------------------------------
(* Claim on the chatbox rows, checked under SpecChatbox *)

EnforcingHasDomains(c) ==
    c.enforce_allowed_domains =>
        (c.allowed_domains # NoneList /\ Len(c.allowed_domains) >= 1)

IsValidationError(r) == r.raised /\ r.exc.type = "ValidationError"

\* the row the last request asked for
RequestedRow ==
    IF request.op = "create"
    THEN request.data
    ELSE LET c == chatboxes[request.chatbox_id]
             d == request.data
         IN  [allowed_domains |->
                  IF d.allowed_domains # NoneList
                  THEN d.allowed_domains ELSE c.allowed_domains,
              enforce_allowed_domains |->
                  IF "enforce_allowed_domains" \in DOMAIN d
                  THEN d.enforce_allowed_domains ELSE c.enforce_allowed_domains]

\* C8: after any sequence of create_chatbox and update_chatbox requests,
\* every persisted chatbox with enforce_allowed_domains = true has a
\* non-empty allowed_domains list, and a request asking for a row that
\* breaks this was answered with ValidationError.
C8_EnforcingRowsHaveDomains ==
    /\ \A i \in DOMAIN chatboxes : EnforcingHasDomains(chatboxes[i])
    /\ (/\ request.op \in {"create", "update"}
        /\ request.op = "update" => request.chatbox_id \in DOMAIN chatboxes
        /\ ~EnforcingHasDomains(RequestedRow))
          => IsValidationError(response)

\* an update that empties the allow-list of an enforcing chatbox was rejected
C8_Witness ==
    /\ request.op = "update"
    /\ request.chatbox_id \in DOMAIN chatboxes
    /\ request.data.allowed_domains = <<>>
    /\ chatboxes[request.chatbox_id].enforce_allowed_domains
    /\ IsValidationError(response)

----------------------------------------------------------------------------
(* repositories/chunk_repository.py: similarity_search                      *)
(*                                                                          *)
(* An embedding is one of four unit directions, a quarter turn apart, so    *)
(* that every cosine is exact: 1.0, 0.0 or -1.0, written in tenths.         *)

Emb == 0..3

CosTenths == <<10, 0, -10, 0>>

\* pgvector's "a <=> b", the cosine distance, in tenths
CosineDistance(a, b) == 10 - CosTenths[((a - b) % 4) + 1]

\* the documents of the store: two in chatbox 1, one in chatbox 2
Docs ==
    << [id |-> 1, chatbox_id |-> 1, source_name |-> <<"a">>],
       [id |-> 2, chatbox_id |-> 1, source_name |-> <<"A">>],
       [id |-> 3, chatbox_id |-> 2, source_name |-> <<"a", "/">>] >>

\* the chunk rows made of a sequence of (document, embedding) pairs: ids in
\* insertion order, chatbox_id copied from the document, chunk_index the
\* ordinal within the document
ChunkRows(pairs) ==
    [i \in 1..Len(pairs) |->
        [id |-> i,
         document_id |-> pairs[i][1],
         chatbox_id |-> Docs[pairs[i][1]].chatbox_id,
         content |-> IF i % 2 = 1 THEN <<"a">> ELSE <<"a", "/">>,
         chunk_index |-> Cardinality({j \in 1..(i - 1) : pairs[j][1] = pairs[i][1]}),
         embedding |-> pairs[i][2]]]

StoresUpTo(n) == {ChunkRows(p) : p \in ListsUpTo((DOMAIN Docs) \X Emb, n)}

\* variant: the WHERE clause without "chatbox_id = :chatbox_id"
SearchMatchesNoChatboxFilter(rows, chatbox_id, query_embedding, min_score, document_id) ==
    {i \in DOMAIN rows :
        /\ document_id # NoneInt => rows[i].document_id = document_id
        /\ 10 - CosineDistance(rows[i].embedding, query_embedding) >= min_score}

\* the rows the WHERE clause keeps
SearchMatches(rows, chatbox_id, query_embedding, min_score, document_id) ==
    {i \in DOMAIN rows :
        /\ rows[i].chatbox_id = chatbox_id
        /\ document_id # NoneInt => rows[i].document_id = document_id
        /\ 10 - CosineDistance(rows[i].embedding, query_embedding) >= min_score}

\* every order ORDER BY "embedding <=> :embedding" may give the kept rows:
\* ascending distance, rows at the same distance in any order
SearchOrders(rows, kept, query_embedding) ==
    {s \in [1..Cardinality(kept) -> kept] :
        /\ \A i, j \in DOMAIN s : i # j => s[i] # s[j]
        /\ \A i, j \in DOMAIN s :
              i < j => CosineDistance(rows[s[i]].embedding, query_embedding)
                          <= CosineDistance(rows[s[j]].embedding, query_embedding)}

\* lines 94-105: a Chunk without its embedding, and float(row.similarity)
SearchRow(row, query_embedding) ==
    [chunk |-> [id |-> row.id, document_id |-> row.document_id,
                chatbox_id |-> row.chatbox_id, content |-> row.content,
                chunk_index |-> row.chunk_index],
     score |-> 10 - CosineDistance(row.embedding, query_embedding)]

\* similarity_search: the lists it may return. A failed engine call is
\* caught by "except Exception" and answered with the empty list.
SimilaritySearch(rows, ok, chatbox_id, query_embedding, top_k, min_score, document_id) ==
    IF ~ok
    THEN {<<>>}
    ELSE LET kept == SearchMatches(rows, chatbox_id, query_embedding,
                                   min_score, document_id)
         IN  {[i \in 1..Min(top_k, Len(s)) |-> SearchRow(rows[s[i]], query_embedding)] :
                 s \in SearchOrders(rows, kept, query_embedding)}

MinScores == {-10, 0, 7}

SearchRequests ==
    [chatbox_id : 1..2, query_embedding : Emb, top_k : 1..MaxTopK,
     min_score : MinScores, document_id : {NoneInt} \cup DOMAIN Docs]

InitSearch ==
    /\ chatboxes = <<>>
    /\ documents = Docs
    /\ chunks \in StoresUpTo(MaxChunks)
    /\ service = StubService(0)
    /\ engine_ok \in BOOLEAN
    /\ request \in SearchRequests
    /\ pc = "call"
    /\ calls = <<>>
    /\ response = Returned(NoneStr)
    /\ locals = <<>>

SimilaritySearchCall ==
    /\ pc = "call"
    /\ \E result \in SimilaritySearch(chunks, engine_ok, request.chatbox_id,
                                      request.query_embedding, request.top_k,
                                      request.min_score, request.document_id) :
          response' = Returned(result)
    /\ calls' = Append(calls, "similarity_search")
    /\ pc' = "returned"
    /\ UNCHANGED <<chatboxes, documents, chunks, service, engine_ok, request, locals>>

NextSearch == SimilaritySearchCall

SpecSearch == InitSearch /\ [][NextSearch]_vars

----------------------------------------------------------------------------
(* Claims on similarity_search, checked under SpecSearch *)

SearchReturned == pc = "returned" /\ ~response.raised

\* the score of a stored chunk against the request, from the cosine table
ScoreOf(c) == CosTenths[((c.embedding - request.query_embedding) % 4) + 1]

\* the stored chunks the request asks for
Wanted ==
    {i \in DOMAIN chunks :
        /\ chunks[i].chatbox_id = request.chatbox_id
        /\ request.document_id # NoneInt => chunks[i].document_id = request.document_id
        /\ ScoreOf(chunks[i]) >= request.min_score}

ReturnedIds == {response.value[k].chunk.id : k \in DOMAIN response.value}

\* C9: when the engine call succeeds the result holds min(topK, number of
\* wanted chunks) distinct wanted chunks, each with its own ids, content and
\* score, in descending score order, and no wanted chunk left out scores
\* higher than a returned one; so no result is from another chatbox or
\* document or scores below minScore.
C9_SearchReturnsTopK ==
    (SearchReturned /\ engine_ok) =>
        LET r == response.value
        IN  /\ Len(r) = Min(request.top_k, Cardinality(Wanted))
            /\ Cardinality(ReturnedIds) = Len(r)
            /\ ReturnedIds \subseteq Wanted
            /\ \A k \in DOMAIN r :
                  LET c == chunks[r[k].chunk.id]
                  IN  /\ r[k].score = ScoreOf(c)
                      /\ r[k].chunk.document_id = c.document_id
                      /\ r[k].chunk.chatbox_id = c.chatbox_id
                      /\ r[k].chunk.content = c.content
                      /\ r[k].chunk.chunk_index = c.chunk_index
                      /\ r[k].chunk.chatbox_id = request.chatbox_id
                      /\ r[k].score >= request.min_score
                      /\ request.document_id # NoneInt =>
                            r[k].chunk.document_id = request.document_id
            /\ \A k \in DOMAIN r : k > 1 => r[k - 1].score >= r[k].score
            /\ \A i \in Wanted \ ReturnedIds :
                  \A k \in DOMAIN r : ScoreOf(chunks[i]) <= r[k].score

\* two chunks wanted, a chunk of another chatbox stored, the better one returned
C9_Witness ==
    /\ SearchReturned /\ engine_ok
    /\ request.top_k = 1
    /\ Cardinality(Wanted) = 2
    /\ \E i \in Wanted : ScoreOf(chunks[i]) < response.value[1].score
    /\ Len(response.value) = 1

\* similarity_search returns the empty list when the engine call fails
SearchFailureReturnsEmpty ==
    (pc = "returned" /\ ~engine_ok) => response = Returned(<<>>)

----------------------------------------------------------------------------
(* services/embedding_service.py and services/llm_service.py                *)
(*                                                                          *)
(* service.openai_client: whether a provider client was built at startup;   *)
(* embed_ok / embed_data: whether the provider's embeddings call succeeds   *)
(* and the vectors of its response; llm_ok: whether its chat call succeeds; *)
(* hash_seed: the per-process salt of Python's str hash.                    *)

CharCode(c) == IF c = "a" THEN 97 ELSE IF c = "A" THEN 65 ELSE 47

\* hash(text), salted per process, on 8 bits
RECURSIVE HashStr(_, _)
HashStr(text, h) ==
    IF text = <<>> THEN h
    ELSE HashStr(Tail(text), (h * 31 + CharCode(Head(text))) % 256)

\* _generate_stub_embedding: the unit vector drawn from the seed hash(text)
StubEmbedding(text, hash_seed) == HashStr(text, hash_seed) % 4

\* variant: a provider failure answered with one vector instead of a raise
EmbedTexts_PartialOnFailure(svc, texts) ==
    IF texts = <<>>
    THEN Returned(<<>>)
    ELSE IF svc.openai_client
    THEN IF svc.embed_ok THEN Returned(svc.embed_data) ELSE Returned(<<0>>)
    ELSE Returned([i \in 1..Len(texts) |-> StubEmbedding(texts[i], svc.hash_seed)])

\* embed_texts
EmbedTexts(svc, texts) ==
    IF texts = <<>>
    THEN Returned(<<>>)
    ELSE IF svc.openai_client
    THEN IF svc.embed_ok
         THEN Returned(svc.embed_data)
         ELSE Raised(ExternalServiceError("Failed to generate embeddings", "openai"))
    ELSE Returned([i \in 1..Len(texts) |-> StubEmbedding(texts[i], svc.hash_seed)])

\* embed_text: "await self.embed_texts([text])[0]" subscripts the coroutine
\* object that the call embed_texts([text]) creates, before anything is
\* awaited; the body of embed_texts does not run
EmbedText(svc, text) ==
    Raised(TypeError("'coroutine' object is not subscriptable"))

Answer(template, question, count) ==
    [template |-> template, question |-> question, count |-> count]

\* variant: the templated message without the test for an empty list
StubAnswer_AlwaysTemplated(question, context_chunks) ==
    Answer("[DEV MODE - Stub Answer] Based on the retrieved context",
           question, Len(context_chunks))

\* _generate_stub_answer
StubAnswer(question, context_chunks) ==
    IF context_chunks = <<>>
    THEN Answer("[DEV MODE - Stub Answer] I don't have enough information to answer",
                question, 0)
    ELSE Answer("[DEV MODE - Stub Answer] Based on the retrieved context",
                question, Len(context_chunks))

\* generate_answer
GenerateAnswer(svc, question, context_chunks) ==
    IF svc.openai_client
    THEN IF svc.llm_ok
         THEN Returned(Answer("response.choices[0].message.content", question,
                              Len(context_chunks)))
         ELSE Raised(ExternalServiceError("Failed to generate answer", "openai"))
    ELSE Returned(StubAnswer(question, context_chunks))

----------------------------------------------------------------------------
(* services/query_service.py: query *)

\* core/config.py
vector_min_score_default == 7

vector_top_k_default == 5

\* "x or default" on an Optional number: None and 0 give the default
OrDefault(x, default) == IF x = NoneInt \/ x = 0 THEN default ELSE x

NoInfoAnswer ==
    Answer("I couldn't find any relevant information to answer your question.",
           NoneStr, 0)

\* DocumentRepository.get_by_id_optional: the row, or NoneList for None
GetDocumentByIdOptional(docs, document_id) ==
    IF document_id \in DOMAIN docs THEN <<docs[document_id]>> ELSE NoneList

\* lines 120-140: one SourceChunk per search result, in the result's order
SourceChunks(docs, found) ==
    [k \in DOMAIN found |->
        LET doc == GetDocumentByIdOptional(docs, found[k].chunk.document_id)
        IN  [document_id |-> found[k].chunk.document_id,
             chunk_id |-> found[k].chunk.id,
             content |-> found[k].chunk.content,
             score |-> found[k].score,
             source_name |-> IF doc # NoneList THEN doc[1].source_name ELSE NoneStr]]

\* the document lookups of lines 122-127, one per distinct document
DocumentLookups(found) ==
    LET ids == {found[k].chunk.document_id : k \in DOMAIN found}
    IN  [i \in 1..Cardinality(ids) |-> "get_by_id_optional"]

QueryResponse(answer, sources) == Returned([answer |-> answer, sources |-> sources])

QueryChatboxes ==
    {c \in [id : 1..2, enforce_allowed_domains : BOOLEAN,
            allowed_domains : {NoneList, <<>>, << <<"a">> >>}] :
        ~MissingAllowedDomains(c)}

QueryRequests ==
    [chatbox : QueryChatboxes,
     question : {<<"a">>, <<"a", "/">>},
     origin : {NoneStr, <<"a">>, <<"A", "/">>, <<"/">>},
     document_id : {NoneInt, 1},
     top_k : {NoneInt, 1},
     min_score : {NoneInt, -10, 0}]

Services ==
    {StubService(seed) : seed \in 0..1}
        \cup [openai_client : {TRUE}, embed_ok : {FALSE}, embed_data : {<<>>},
              llm_ok : {FALSE}, hash_seed : {0}]
        \cup [openai_client : {TRUE}, embed_ok : {TRUE}, embed_data : {<<0>>, <<1>>},
              llm_ok : BOOLEAN, hash_seed : {0}]

Init ==
    /\ chatboxes = <<>>
    /\ documents = Docs
    /\ chunks \in StoresUpTo(1)
    /\ service \in Services
    /\ engine_ok \in BOOLEAN
    /\ request \in QueryRequests
    /\ pc = "start"
    /\ calls = <<>>
    /\ response = Returned(NoneStr)
    /\ locals = <<>>

\* variant: the question embedded before the origin is validated
QueryValidateOrigin_EmbedFirst ==
    /\ pc = "start"
    /\ LET e == EmbedText(service, request.question)
           v == ValidateOrigin(request.chatbox, request.origin)
       IN  IF e.raised
           THEN /\ response' = e
                /\ calls' = Append(calls, "embed_text")
                /\ pc' = "raised"
           ELSE /\ calls' = calls \o <<"embed_text", "validate_origin">>
                /\ response' = IF v.raised THEN v ELSE response
                /\ pc' = IF v.raised THEN "raised" ELSE "validated"
    /\ UNCHANGED <<chatboxes, documents, chunks, service, engine_ok, request, locals>>

\* query, lines 85-86
QueryValidateOrigin ==
    /\ pc = "start"
    /\ LET v == ValidateOrigin(request.chatbox, request.origin)
       IN  /\ calls' = Append(calls, "validate_origin")
           /\ response' = IF v.raised THEN v ELSE response
           /\ pc' = IF v.raised THEN "raised" ELSE "validated"
    /\ UNCHANGED <<chatboxes, documents, chunks, service, engine_ok, request, locals>>

\* query, lines 88-143
QueryRetrieveAndAnswer ==
    /\ pc = "validated"
    /\ request' = [request EXCEPT
                      !.top_k = OrDefault(@, vector_top_k_default),
                      !.min_score = OrDefault(@, vector_min_score_default)]
    /\ LET query_embedding == EmbedText(service, request.question)
       IN  IF query_embedding.raised
           THEN /\ response' = query_embedding
                /\ calls' = Append(calls, "embed_text")
                /\ pc' = "raised"
           ELSE \E chunks_with_scores \in
                      SimilaritySearch(chunks, engine_ok, request.chatbox.id,
                                       query_embedding.value, request'.top_k,
                                       request'.min_score, request.document_id) :
                  IF chunks_with_scores = <<>>
                  THEN /\ response' = QueryResponse(NoInfoAnswer, <<>>)
                       /\ calls' = calls \o <<"embed_text", "similarity_search">>
                       /\ pc' = "done"
                  ELSE LET context_texts ==
                               [k \in DOMAIN chunks_with_scores |->
                                   chunks_with_scores[k].chunk.content]
                           answer == GenerateAnswer(service, request.question,
                                                    context_texts)
                       IN  IF answer.raised
                           THEN /\ response' = answer
                                /\ calls' = calls \o <<"embed_text", "similarity_search",
                                                       "generate_answer">>
                                /\ pc' = "raised"
                           ELSE /\ response' =
                                      QueryResponse(answer.value,
                                          SourceChunks(documents, chunks_with_scores))
                                /\ calls' = calls \o <<"embed_text", "similarity_search",
                                                       "generate_answer">>
                                              \o DocumentLookups(chunks_with_scores)
                                /\ pc' = "done"
    /\ UNCHANGED <<chatboxes, documents, chunks, service, engine_ok, locals>>

Next == QueryValidateOrigin \/ QueryRetrieveAndAnswer

Spec == Init /\ [][Next]_vars

----------------------------------------------------------------------------
(* Claims on query, checked under Spec *)

QueryFinished == pc \in {"done", "raised"}

\* the run went past validate_origin
PassedValidation == QueryFinished /\ Len(calls) >= 2

Invoked(name) == \E k \in DOMAIN calls : calls[k] = name

\* what embed_texts([question]) gives this run
QuestionVectors == EmbedTexts(service, <<request.question>>)

EmbedderAnswers == ~QuestionVectors.raised /\ Len(QuestionVectors.value) >= 1

AnswererAnswers == service.openai_client => service.llm_ok

\* the lists a search for the question may return, with the topK and
\* minScore the run resolved
QuestionSearch ==
    SimilaritySearch(chunks, engine_ok, request.chatbox.id,
                     QuestionVectors.value[1], request.top_k, request.min_score,
                     request.document_id)

StoredContents == {chunks[i].content : i \in DOMAIN chunks}

\* C1: a query that passes origin validation and whose similarity search
\* finds nothing returns the fixed answer with no sources, raises nothing
\* and does not invoke generate_answer.
C1_Original_EmptySearchGivesFixedAnswer ==
    (PassedValidation /\ EmbedderAnswers /\ QuestionSearch = {<<>>}) =>
        /\ response = QueryResponse(NoInfoAnswer, <<>>)
        /\ ~Invoked("generate_answer")

\* C2: when the vector engine call fails the search returns the empty list
\* and the query ends in the 'no relevant information' outcome, not an error.
C2_Original_EngineFailureGivesNoInfo ==
    (PassedValidation /\ EmbedderAnswers /\ ~engine_ok) =>
        response = QueryResponse(NoInfoAnswer, <<>>)

\* C3: embed_text(question) gives the first vector of embed_texts([question]),
\* so a query that passes origin validation reaches similarity_search, and
\* when a stored chunk matches it returns an answer and at least one source
\* whose content is a stored chunk.
C3_Original_QueryReachesSearch ==
    (PassedValidation /\ EmbedderAnswers) =>
        /\ Invoked("similarity_search")
        /\ (AnswererAnswers /\ <<>> \notin QuestionSearch) =>
              /\ ~response.raised
              /\ response.value.answer # NoInfoAnswer
              /\ Len(response.value.sources) >= 1
              /\ \A k \in DOMAIN response.value.sources :
                    response.value.sources[k].content \in StoredContents

\* C7: validate_origin is the first call of every run, a run makes a second
\* call only for an origin the chatbox admits, and a run in which
\* validate_origin raised has made no other call: no embedding, search,
\* answer generation or document lookup.
C7_ValidationBeforeProviders ==
    /\ calls # <<>> => calls[1] = "validate_origin"
    /\ (response.raised /\ IsForbiddenError(response.exc)) =>
          (pc = "raised" /\ calls = <<"validate_origin">>)
    /\ Len(calls) > 1 =>
          \/ ~Enforcing
          \/ (~OriginMissing /\ ~AllowListEmpty /\ MatchesSome(NormAll))

\* an enforcing chatbox with stored chunks, the origin rejected
C7_Witness ==
    /\ pc = "raised"
    /\ response.exc.type = "OriginNotAllowedError"
    /\ calls = <<"validate_origin">>
    /\ chunks # <<>>

\* C10: a query whose search finds chunks succeeds with one source record
\* per search result, in the ranking's order, carrying the result's document
\* id, chunk id, content and score, and the parent document's name or null.
C10_Original_OneSourcePerResult ==
    (PassedValidation /\ EmbedderAnswers /\ AnswererAnswers
        /\ <<>> \notin QuestionSearch) =>
        /\ ~response.raised
        /\ \E found \in QuestionSearch :
              /\ Len(response.value.sources) = Len(found)
              /\ \A k \in DOMAIN found :
                    LET src == response.value.sources[k]
                        doc == found[k].chunk.document_id
                    IN  /\ src.document_id = doc
                        /\ src.chunk_id = found[k].chunk.id
                        /\ src.content = found[k].chunk.content
                        /\ src.score = found[k].score
                        /\ src.source_name =
                              IF doc \in DOMAIN documents
                              THEN documents[doc].source_name ELSE NoneStr

\* the value query hands on for a parameter the caller gave as x: the
\* default for an omitted one, x itself otherwise
ResolvedAs(x, default) == IF x = NoneInt THEN default ELSE x

\* lines 89-90 taken alone: the step that leaves "validated" rebinds top_k and
\* min_score to the caller's value, or to the default when it was omitted
ResolutionKeepsSupplied ==
    [][pc = "validated" =>
          /\ request'.top_k = ResolvedAs(request.top_k, vector_top_k_default)
          /\ request'.min_score =
                ResolvedAs(request.min_score, vector_min_score_default)]_vars

\* C11: query passes to similarity_search the configured default topK
\* (resp. minScore) exactly when the caller omitted the parameter, and passes
\* every supplied topK and minScore unchanged.
C11_Original_DefaultsOnlyWhenOmitted ==
    [][(pc = "validated" /\ EmbedderAnswers) =>
          /\ Invoked("similarity_search")'
          /\ request'.top_k = ResolvedAs(request.top_k, vector_top_k_default)
          /\ request'.min_score =
                ResolvedAs(request.min_score, vector_min_score_default)]_vars

----------------------------------------------------------------------------
(* services/chunking_service.py                                            *)
(*                                                                         *)
(* A text is a sequence over TextAlphabet, " " standing for the whitespace *)
(* characters. The constructor arguments are Optional[int]: None or a      *)
(* natural number. locals holds chunks, start and text_length of           *)
(* chunk_text; pc is "start" before line 36, "loop" at the test of the     *)
(* while of line 43, "return" after the break of line 57, "done" after the *)
(* return.                                                                 *)

MaxTextLen == 4

MaxChunkSize == 3

\* core/config.py
settings_chunk_size == 1000

settings_chunk_overlap == 200

TextAlphabet == {"a", "b", " "}

Texts == UNION {[1..k -> TextAlphabet] : k \in 0..MaxTextLen}

\* str.strip(): identity, for the variant below
Strip_Identity(s) == s

RECURSIVE LStrip(_, _)
LStrip(s, ch) == IF s # <<>> /\ Head(s) = ch THEN LStrip(Tail(s), ch) ELSE s

\* str.strip()
Strip(s) == RStrip(LStrip(s, " "), " ")

\* text[start:end] for 0 <= start
Slice(text, start, end) == SubSeq(text, start + 1, Min(end, Len(text)))

\* __init__
ChunkingService(chunk_size, chunk_overlap) ==
    [chunk_size |-> OrDefault(chunk_size, settings_chunk_size),
     chunk_overlap |-> OrDefault(chunk_overlap, settings_chunk_overlap)]

\* "not text or not text.strip()"
IsBlank(text) == text = <<>> \/ Strip(text) = <<>>

ChunkerArgs == {NoneInt} \cup 0..MaxChunkSize

InitChunk ==
    /\ chatboxes = <<>>
    /\ documents = <<>>
    /\ chunks = <<>>
    /\ engine_ok = TRUE
    /\ request \in [chunk_size : ChunkerArgs, chunk_overlap : ChunkerArgs, text : Texts]
    /\ service = ChunkingService(request.chunk_size, request.chunk_overlap)
    /\ pc = "start"
    /\ calls = <<>>
    /\ response = Returned(<<>>)
    /\ locals = <<>>

\* chunk_text, lines 36-41
ChunkTextStart ==
    /\ pc = "start"
    /\ IF IsBlank(request.text)
       THEN /\ response' = Returned(<<>>)
            /\ pc' = "done"
            /\ UNCHANGED locals
       ELSE /\ locals' = [chunks |-> <<>>, start |-> 0,
                          text_length |-> Len(request.text)]
            /\ pc' = "loop"
            /\ UNCHANGED response
    /\ UNCHANGED <<chatboxes, documents, chunks, service, engine_ok, request, calls>>

\* variant: the overlap added to the advance of line 53
ChunkTextIteration_OverlapAdded ==
    /\ pc = "loop"
    /\ locals.start < locals.text_length
    /\ LET end == locals.start + service.chunk_size
           chunk == Slice(request.text, locals.start, end)
           start == locals.start + service.chunk_size + service.chunk_overlap
       IN  /\ locals' = [locals EXCEPT
                            !.chunks = IF Strip(chunk) # <<>>
                                       THEN Append(@, Strip(chunk)) ELSE @,
                            !.start = start]
           /\ pc' = IF start <= 0 THEN "return" ELSE "loop"
    /\ UNCHANGED <<chatboxes, documents, chunks, service, engine_ok, request, calls,
                   response>>

\* variant: the iteration without the guard of lines 56-57
ChunkTextIteration_NoBreak ==
    /\ pc = "loop"
    /\ locals.start < locals.text_length
    /\ LET end == locals.start + service.chunk_size
           chunk == Slice(request.text, locals.start, end)
           start == locals.start + service.chunk_size - service.chunk_overlap
       IN  locals' = [locals EXCEPT
                         !.chunks = IF Strip(chunk) # <<>>
                                    THEN Append(@, Strip(chunk)) ELSE @,
                         !.start = start]
    /\ pc' = "loop"
    /\ UNCHANGED <<chatboxes, documents, chunks, service, engine_ok, request, calls,
                   response>>

\* chunk_text, one iteration of the while: lines 43-57
ChunkTextIteration ==
    /\ pc = "loop"
    /\ locals.start < locals.text_length
    /\ LET end == locals.start + service.chunk_size
           chunk == Slice(request.text, locals.start, end)
           start == locals.start + service.chunk_size - service.chunk_overlap
       IN  /\ locals' = [locals EXCEPT
                            !.chunks = IF Strip(chunk) # <<>>
                                       THEN Append(@, Strip(chunk)) ELSE @,
                            !.start = start]
           /\ pc' = IF start <= 0 THEN "return" ELSE "loop"
    /\ UNCHANGED <<chatboxes, documents, chunks, service, engine_ok, request, calls,
                   response>>

\* chunk_text, the exit of the while and line 60
ChunkTextReturn ==
    /\ \/ pc = "return"
       \/ pc = "loop" /\ locals.start >= locals.text_length
    /\ response' = Returned(locals.chunks)
    /\ pc' = "done"
    /\ UNCHANGED <<chatboxes, documents, chunks, service, engine_ok, request, calls,
                   locals>>

NextChunk == ChunkTextStart \/ ChunkTextIteration \/ ChunkTextReturn

SpecChunk == InitChunk /\ [][NextChunk]_vars

\* chunk_text runs to its end once called: nothing suspends it
SpecChunkLive == InitChunk /\ [][NextChunk]_vars /\ WF_vars(NextChunk)

----------------------------------------------------------------------------
(* Claims on the chunker, checked under SpecChunk *)

AllWhitespace(text) == \A i \in DOMAIN text : text[i] = " "

\* C12: chunk_text returns the empty list, and raises nothing, for the empty
\* string and for every text of whitespace only, whatever chunk size and
\* overlap the service was built with.
C12_BlankTextGivesEmptyList ==
    [][(pc = "start" /\ AllWhitespace(request.text)) =>
          (pc' = "done" /\ response' = Returned(<<>>))]_vars

\* a text of several whitespace characters, chunked by a service whose
\* overlap is not below its chunk size
C12_Witness ==
    /\ pc = "done"
    /\ Len(request.text) >= 2
    /\ AllWhitespace(request.text)
    /\ service.chunk_overlap >= service.chunk_size
    /\ response = Returned(<<>>)

\* w without its leading and trailing whitespace
Trimmed(w) ==
    IF AllWhitespace(w) THEN <<>>
    ELSE LET ink == {i \in DOMAIN w : w[i] # " "}
             first == CHOOSE i \in ink : \A j \in ink : i <= j
             last == CHOOSE i \in ink : \A j \in ink : j <= i
         IN  SubSeq(w, first, last)

NonEmptyText(w) == w # <<>>

\* the trimmed, non-empty windows text[k*s, k*s + size) with s = size - overlap,
\* for k = 0, 1, ... while k*s < len(text), in increasing k
WindowChunks(text, size, overlap) ==
    LET s == size - overlap
        count == Cardinality({k \in 0..Len(text) : k * s < Len(text)})
        window(k) == SubSeq(text, k * s + 1, Min(k * s + size, Len(text)))
    IN  SelectSeq([k \in 1..count |-> Trimmed(window(k - 1))], NonEmptyText)

\* the service was constructed with both arguments, chunk size above overlap
BuiltWithSizeAboveOverlap ==
    /\ request.chunk_overlap # NoneInt
    /\ request.chunk_size > request.chunk_overlap

\* C13: a service constructed with chunkSize > overlap >= 0 returns, for
\* every text, the trimmed contents of the non-blank windows
\* text[k*s, k*s+chunkSize), s = chunkSize - overlap, k = 0, 1, ... while
\* k*s < len(text), in increasing k.
C13_Original_WindowsOfStride ==
    (pc = "done" /\ BuiltWithSizeAboveOverlap) =>
        response = Returned(WindowChunks(request.text, request.chunk_size,
                                         request.chunk_overlap))

\* the same for an overlap of at least 1, which the constructor keeps
WindowsOfStrideForPositiveOverlap ==
    (pc = "done" /\ BuiltWithSizeAboveOverlap /\ request.chunk_overlap >= 1) =>
        response = Returned(WindowChunks(request.text, request.chunk_size,
                                         request.chunk_overlap))

\* the service was constructed with both arguments, overlap not below the
\* chunk size
BuiltWithOverlapNotBelowSize ==
    /\ request.chunk_size >= 1
    /\ request.chunk_overlap >= request.chunk_size

\* C14: a chunker configured with overlap >= chunkSize fails fast on a
\* non-blank text with a validation error: it does not return a chunk list.
C14_Original_ConfigurationError ==
    (pc = "done" /\ BuiltWithOverlapNotBelowSize /\ ~AllWhitespace(request.text)) =>
        IsValidationError(response)

\* what the code does instead: one iteration, the first window, then the break
FirstWindowOnly ==
    (pc = "done" /\ service.chunk_overlap >= service.chunk_size
        /\ ~AllWhitespace(request.text)) =>
        /\ ~response.raised
        /\ Len(response.value) <= 1
        /\ locals.start <= 0

----------------------------------------------------------------------------
(* services/embedding_service.py: embed_texts called directly              *)
(*                                                                         *)
(* Two server processes, each with its own EmbeddingService and its own    *)
(* str-hash salt: service[p] is the service of process p. calls is the log *)
(* of the embed_texts calls made so far: the process, the texts, the       *)
(* provider calls the run made and what it returned or raised.             *)

MaxEmbedTexts == 2

MaxEmbedCalls == 2

Processes == 1..2

EmbedInputs == ListsUpTo({<<"a">>, <<"A">>}, MaxEmbedTexts)

\* the vectors of response.data, for any response the provider may send
ProviderData == ListsUpTo({0, 1}, MaxEmbedTexts)

ProviderServices ==
    [openai_client : {TRUE}, embed_ok : {TRUE}, embed_data : ProviderData,
     llm_ok : {TRUE}, hash_seed : {0}]
        \cup [openai_client : {TRUE}, embed_ok : {FALSE}, embed_data : {<<>>},
              llm_ok : {TRUE}, hash_seed : {0}]

StubServices == {StubService(seed) : seed \in 0..1}

\* variant: the client test of line 53 before the empty test of line 49
EmbedTextsProviderCalls_ClientFirst(svc, texts) ==
    IF svc.openai_client THEN <<"embeddings.create">> ELSE <<>>

\* the provider calls one run of embed_texts makes
EmbedTextsProviderCalls(svc, texts) ==
    IF texts = <<>> THEN <<>>
    ELSE IF svc.openai_client THEN <<"embeddings.create">>
    ELSE <<>>

InitEmbed ==
    /\ chatboxes = <<>>
    /\ documents = <<>>
    /\ chunks = <<>>
    /\ engine_ok = TRUE
    /\ service \in {<<first, second>> :
                        first \in ProviderServices \cup StubServices,
                        second \in StubServices}
    /\ request = [op |-> "none"]
    /\ pc = "idle"
    /\ calls = <<>>
    /\ response = Returned(NoneStr)
    /\ locals = <<>>

\* one call of embed_texts in process p
EmbedTextsCall ==
    /\ Len(calls) < MaxEmbedCalls
    /\ \E p \in Processes, texts \in EmbedInputs :
          /\ request' = [op |-> "embed_texts", process |-> p, texts |-> texts]
          /\ response' = EmbedTexts(service[p], texts)
          /\ calls' = Append(calls,
                 [process |-> p, texts |-> texts,
                  provider_calls |-> EmbedTextsProviderCalls(service[p], texts),
                  outcome |-> EmbedTexts(service[p], texts)])
    /\ UNCHANGED <<chatboxes, documents, chunks, service, engine_ok, pc, locals>>

NextEmbed == EmbedTextsCall

SpecEmbed == InitEmbed /\ [][NextEmbed]_vars

----------------------------------------------------------------------------
(* Claims on the embedder, checked under SpecEmbed *)

\* the service that handled the k-th call
ServiceOf(k) == service[calls[k].process]

\* C15: embed_texts called with the empty list returns the empty list and
\* makes no call to the embedding provider, with or without a provider
\* client.
C15_EmptyInputNoProviderCall ==
    \A k \in DOMAIN calls :
        calls[k].texts = <<>> =>
            /\ calls[k].outcome = Returned(<<>>)
            /\ calls[k].provider_calls = <<>>

\* a provider-backed service called with the empty list, and called with a
\* text, for which it does go to the provider
C15_Witness ==
    \E j, k \in DOMAIN calls :
        /\ ServiceOf(j).openai_client
        /\ calls[j].texts = <<>>
        /\ calls[j].outcome = Returned(<<>>)
        /\ calls[k].process = calls[j].process
        /\ calls[k].texts # <<>>
        /\ calls[k].provider_calls # <<>>

ReturnedNormally(k) == ~calls[k].outcome.raised

UsedStub(k) == ~ServiceOf(k).openai_client

\* C16: whenever embed_texts returns, with the provider or with the stub, the
\* result is as long as the input and its i-th vector is the embedding of the
\* i-th text, whatever the provider responded.
C16_Original_OneVectorPerText ==
    \A k \in DOMAIN calls :
        ReturnedNormally(k) =>
            /\ Len(calls[k].outcome.value) = Len(calls[k].texts)
            /\ UsedStub(k) =>
                  \A i \in DOMAIN calls[k].texts :
                      calls[k].outcome.value[i] =
                          StubEmbedding(calls[k].texts[i], ServiceOf(k).hash_seed)

\* the same for the stub strategy alone
StubGivesOneVectorPerText ==
    \A k \in DOMAIN calls :
        UsedStub(k) =>
            /\ ReturnedNormally(k)
            /\ Len(calls[k].outcome.value) = Len(calls[k].texts)
            /\ \A i \in DOMAIN calls[k].texts :
                  calls[k].outcome.value[i] =
                      StubEmbedding(calls[k].texts[i], ServiceOf(k).hash_seed)

\* the i-th text of call j is the m-th text of call k, both embedded by the stub
SameTextEmbedded(j, i, k, m) ==
    /\ UsedStub(j) /\ UsedStub(k)
    /\ i \in DOMAIN calls[j].texts
    /\ m \in DOMAIN calls[k].texts
    /\ calls[j].texts[i] = calls[k].texts[m]

\* C17: the stub vector of a text depends on the text alone: any two stub
\* embed_texts calls that embed the same text, in one process or in two,
\* in any order and with any other texts around it, give it the same vector.
C17_Original_StubDeterministic ==
    \A j, k \in DOMAIN calls : \A i, m \in 1..MaxEmbedTexts :
        SameTextEmbedded(j, i, k, m) =>
            calls[j].outcome.value[i] = calls[k].outcome.value[m]

\* the same within one process
StubDeterministicWithinProcess ==
    \A j, k \in DOMAIN calls : \A i, m \in 1..MaxEmbedTexts :
        (SameTextEmbedded(j, i, k, m) /\ calls[j].process = calls[k].process) =>
            calls[j].outcome.value[i] = calls[k].outcome.value[m]

----------------------------------------------------------------------------
(* services/llm_service.py: generate_answer called directly *)

MaxPassages == 2

Passages == ListsUpTo({<<"a">>, <<"A">>}, MaxPassages)

AnswerServices ==
    StubServices
        \cup [openai_client : {TRUE}, embed_ok : {TRUE}, embed_data : {<<>>},
              llm_ok : BOOLEAN, hash_seed : {0}]

InitAnswer ==
    /\ chatboxes = <<>>
    /\ documents = <<>>
    /\ chunks = <<>>
    /\ engine_ok = TRUE
    /\ service \in AnswerServices
    /\ request = [op |-> "none"]
    /\ pc = "idle"
    /\ calls = <<>>
    /\ response = Returned(NoneStr)
    /\ locals = <<>>

\* one call of generate_answer
GenerateAnswerCall ==
    /\ \E question \in StrUpTo(MaxStrLen), context_chunks \in Passages :
          /\ request' = [op |-> "generate_answer", question |-> question,
                         context_chunks |-> context_chunks]
          /\ response' = GenerateAnswer(service, question, context_chunks)
    /\ UNCHANGED <<chatboxes, documents, chunks, service, engine_ok, pc, calls,
                   locals>>

NextAnswer == GenerateAnswerCall

SpecAnswer == InitAnswer /\ [][NextAnswer]_vars

----------------------------------------------------------------------------
(* Claims on the answerer *)

AnswerRequested == request.op = "generate_answer"

NotEnoughInformation(answer) ==
    answer.template =
        "[DEV MODE - Stub Answer] I don't have enough information to answer"

BasedOnContext(answer) ==
    answer.template = "[DEV MODE - Stub Answer] Based on the retrieved context"

\* C18: with no provider, generate_answer returns the 'not enough
\* information' message naming the question exactly when the passage list is
\* empty, and otherwise the templated message naming the question and
\* stating as passage count the number of passages it received.
C18_StubAnswerReportsItsContext ==
    (AnswerRequested /\ ~service.openai_client) =>
        /\ ~response.raised
        /\ response.value.question = request.question
        /\ NotEnoughInformation(response.value) <=> request.context_chunks = <<>>
        /\ request.context_chunks # <<>> =>
              /\ BasedOnContext(response.value)
              /\ response.value.count = Len(request.context_chunks)

\* the stub asked a question with no passage
C18_Witness ==
    /\ AnswerRequested
    /\ ~service.openai_client
    /\ request.question # <<>>
    /\ request.context_chunks = <<>>
    /\ NotEnoughInformation(response.value)

\* the stub asked a question with two passages
StubCountsTwoPassages ==
    /\ AnswerRequested
    /\ ~service.openai_client
    /\ Len(request.context_chunks) = 2
    /\ response.value.count = 2

\* generate_answer alone: a failing provider call raises ExternalServiceError
\* with service "openai", and no answer is returned
ProviderFailureRaises ==
    (AnswerRequested /\ service.openai_client /\ ~service.llm_ok) =>
        /\ response.raised
        /\ response.exc.type = "ExternalServiceError"
        /\ response.exc.service = "openai"

\* C19: when a provider client is configured and the language-model call
\* fails, generate_answer raises ExternalServiceError with service "openai",
\* returns no answer, and query propagates that error instead of returning
\* (answer, sources).
C19_Original_QueryPropagatesProviderError ==
    (PassedValidation /\ EmbedderAnswers /\ <<>> \notin QuestionSearch
        /\ service.openai_client /\ ~service.llm_ok) =>
        /\ response.raised
        /\ response.exc.type = "ExternalServiceError"
        /\ response.exc.service = "openai"

----------------------------------------------------------------------------
(* services/ingestion_service.py                                           *)
(*                                                                         *)
(* service is the pair of singletons the IngestionService holds:           *)
(* service.chunking, the ChunkingService() of api/dependencies.py, whose   *)
(* chunk_size and chunk_overlap are the settings' values, and              *)
(* service.embedding. documents and chunks are the committed rows. locals  *)
(* holds text, document, chunks_text and embeddings of the running         *)
(* ingestion. pc is "start", "acquired" once the raw text is there,        *)
(* "chunked" before the await of embed_texts, "embedded" before the await  *)
(* of create_many, "done" after a return and "raised" after a raise.       *)

MaxLead == 2

\* the least number of non-blank characters url and file ingestion accept
MinExtractableLen == 10

Spaces(n) == [i \in 1..n |-> " "]

Body(n) == [i \in 1..n |-> IF i % 2 = 1 THEN "a" ELSE "b"]

BodyLens == {0, MinExtractableLen - 1, MinExtractableLen, MinExtractableLen + 2}

\* raw texts: whitespace, then letters
IngestTexts == {Spaces(lead) \o Body(n) : lead \in 0..MaxLead, n \in BodyLens}

\* soup.get_text(separator="\n", strip=True): no whitespace at either end
PageTexts == {Body(n) : n \in BodyLens}

\* a byte that is not valid UTF-8
InvalidByte == "\\xff"

\* content.decode("utf-8", errors="ignore")
IsValidByte(b) == b # InvalidByte

Decode(content) == SelectSeq(content, IsValidByte)

FileContents == IngestTexts \cup {<<InvalidByte>> \o Body(MinExtractableLen)}

PdfPlaceholder ==
    <<"[", "P", "D", "F", " ", "c", "o", "n", "t", "e", "n", "t", " ", "-",
      " ", "T", "O", "D", "O", ":", " ", "i", "m", "p", "l", "e", "m", "e",
      "n", "t", " ", "P", "D", "F", " ", "e", "x", "t", "r", "a", "c", "t",
      "i", "o", "n", "]">>

\* "None" stands for a missing mime type
MimeTypes == {"None", "text/plain", "application/pdf", "image/png"}

Filenames == {"a.txt", "a.pdf", "a.png"}

EndsWith(filename, suffix) ==
    \/ suffix = ".txt" /\ filename = "a.txt"
    \/ suffix = ".pdf" /\ filename = "a.pdf"

\* chunk_text as a function of the service and the text: the iterations of
\* the while from offset start on, acc being the chunks list built so far
RECURSIVE ChunkTextFrom(_, _, _, _)
ChunkTextFrom(svc, text, start, acc) ==
    IF start >= Len(text) THEN acc
    ELSE LET chunk == Slice(text, start, start + svc.chunk_size)
             appended == IF Strip(chunk) # <<>>
                         THEN Append(acc, Strip(chunk)) ELSE acc
             next == start + svc.chunk_size - svc.chunk_overlap
         IN  IF next <= 0 THEN appended
             ELSE ChunkTextFrom(svc, text, next, appended)

ChunkText(svc, text) ==
    IF IsBlank(text) THEN <<>> ELSE ChunkTextFrom(svc, text, 0, <<>>)

\* the settings the environment may give the chunker
ChunkerSettings ==
    {[chunk_size |-> settings_chunk_size, chunk_overlap |-> settings_chunk_overlap]}
        \cup [chunk_size : 1..MaxChunkSize, chunk_overlap : 0..MaxChunkSize]

IngestEmbeddingServices ==
    StubServices
        \cup [openai_client : {TRUE}, embed_ok : BOOLEAN, embed_data : {<<>>},
              llm_ok : {TRUE}, hash_seed : {0}]

\* the vectors of response.data for a call with n texts: one per text, or
\* one fewer
ProviderDataFor(n) ==
    {[i \in 1..n |-> i % 4], [i \in 1..(n - 1) |-> i % 4]}

IngestRequests ==
    [op : {"ingest_text"}, chatbox_id : {1}, text : IngestTexts,
     source_name : {NoneStr, <<"a">>}]
        \cup [op : {"ingest_url"}, chatbox_id : {1}, url : {<<"a">>},
              fetch : {"RequestException", "Exception", "ok"}, page : PageTexts]
        \cup [op : {"ingest_file"}, chatbox_id : {1}, filename : Filenames,
              content : FileContents, mime_type : MimeTypes]

\* the Document built at lines 51-56, 132-138 and 204-211
NewDocument(req, text) ==
    [chatbox_id |-> req.chatbox_id,
     source_type |-> IF req.op = "ingest_text" THEN "text"
                     ELSE IF req.op = "ingest_url" THEN "url" ELSE "file",
     source_name |-> IF req.op = "ingest_text"
                     THEN IF FalsyStr(req.source_name)
                          THEN <<"R", "a", "w", " ", "T", "e", "x", "t">>
                          ELSE req.source_name
                     ELSE IF req.op = "ingest_url" THEN req.url
                     ELSE <<req.filename>>,
     raw_content |-> text]

\* DocumentRepository.create: the committed row, with its id
DocumentCreate(rows, document) ==
    Append(rows, [id |-> Len(rows) + 1] @@ document)

\* the Chunk objects of lines 70-79: zip stops at the shorter list
NewChunks(document, chunks_text, embeddings) ==
    [i \in 1..Min(Len(chunks_text), Len(embeddings)) |->
        [document_id |-> document.id,
         chatbox_id |-> document.chatbox_id,
         content |-> chunks_text[i],
         chunk_index |-> i - 1,
         embedding |-> embeddings[i]]]

\* variant: create_many replacing the stored rows
CreateMany_Replace(rows, new) ==
    [i \in 1..Len(new) |-> [id |-> Len(rows) + i] @@ new[i]]

\* ChunkRepository.create_many: the committed rows, with their ids
CreateMany(rows, new) ==
    rows \o [i \in 1..Len(new) |-> [id |-> Len(rows) + i] @@ new[i]]

\* variant: a file of an unsupported type taken as a PDF
Acquire_UnsupportedAsPdf(req) ==
    IF req.op = "ingest_text" THEN Returned(req.text)
    ELSE IF req.op = "ingest_url"
    THEN IF req.fetch = "RequestException"
         THEN Raised(ExternalServiceError("Failed to fetch URL", "url_fetch"))
         ELSE IF req.fetch = "Exception"
         THEN Raised(ValidationError("Failed to process URL"))
         ELSE IF req.page = <<>> \/ Len(Strip(req.page)) < MinExtractableLen
         THEN Raised(ValidationError(
                  "Failed to process URL: URL contains no extractable text"))
         ELSE Returned(req.page)
    ELSE LET txt == req.mime_type = "text/plain" \/ EndsWith(req.filename, ".txt")
             text == IF txt THEN Decode(req.content) ELSE PdfPlaceholder
         IN  IF text = <<>> \/ Len(Strip(text)) < MinExtractableLen
             THEN Raised(ValidationError("File contains no extractable text"))
             ELSE Returned(text)

\* the text of the url or file, or the exception of lines 106-129, 186-201
Acquire(req) ==
    IF req.op = "ingest_text" THEN Returned(req.text)
    ELSE IF req.op = "ingest_url"
    THEN IF req.fetch = "RequestException"
         THEN Raised(ExternalServiceError("Failed to fetch URL", "url_fetch"))
         ELSE IF req.fetch = "Exception"
         THEN Raised(ValidationError("Failed to process URL"))
         ELSE IF req.page = <<>> \/ Len(Strip(req.page)) < MinExtractableLen
         THEN Raised(ValidationError(
                  "Failed to process URL: URL contains no extractable text"))
         ELSE Returned(req.page)
    ELSE LET txt == req.mime_type = "text/plain" \/ EndsWith(req.filename, ".txt")
             pdf == req.mime_type = "application/pdf"
                        \/ EndsWith(req.filename, ".pdf")
             text == IF txt THEN Decode(req.content) ELSE PdfPlaceholder
         IN  IF ~txt /\ ~pdf
             THEN Raised(ValidationError("Unsupported file type"))
             ELSE IF text = <<>> \/ Len(Strip(text)) < MinExtractableLen
             THEN Raised(ValidationError("File contains no extractable text"))
             ELSE Returned(text)

\* variant: the test of lines 62, 144 and 217 never true
NoChunks_Never(chunks_text) == FALSE

\* "not chunks_text"
NoChunks(chunks_text) == chunks_text = <<>>

InitIngest ==
    /\ chatboxes = <<>>
    /\ documents \in {<<>>,
                       DocumentCreate(<<>>,
                           [chatbox_id |-> 1, source_type |-> "text",
                            source_name |-> <<"a">>, raw_content |-> <<"a">>])}
    /\ chunks = <<>>
    /\ service \in [chunking : ChunkerSettings, embedding : IngestEmbeddingServices]
    /\ engine_ok \in BOOLEAN
    /\ request \in IngestRequests
    /\ pc = "start"
    /\ calls = <<>>
    /\ response = Returned(NoneStr)
    /\ locals = <<>>

\* lines 48, 104-129, 183-201
IngestAcquire ==
    /\ pc = "start"
    /\ LET text == Acquire(request)
       IN  IF text.raised
           THEN /\ response' = text
                /\ pc' = "raised"
                /\ UNCHANGED locals
           ELSE /\ locals' = [text |-> text.value]
                /\ pc' = "acquired"
                /\ UNCHANGED response
    /\ UNCHANGED <<chatboxes, documents, chunks, service, engine_ok, request, calls>>

\* lines 50-64, 131-146, 203-219
IngestCreateDocument ==
    /\ pc = "acquired"
    /\ documents' = DocumentCreate(documents, NewDocument(request, locals.text))
    /\ LET document == documents'[Len(documents')]
           chunks_text == ChunkText(service.chunking, locals.text)
       IN  /\ locals' = [text |-> locals.text, document |-> document,
                          chunks_text |-> chunks_text]
           /\ calls' = calls \o <<"document_repo.create", "chunk_text">>
           /\ IF NoChunks(chunks_text)
              THEN /\ response' = Returned([document |-> document,
                                            chunks_created |-> 0])
                   /\ pc' = "done"
              ELSE /\ pc' = "chunked"
                   /\ UNCHANGED response
    /\ UNCHANGED <<chatboxes, chunks, service, engine_ok, request>>

\* variant: one embed_texts call per chunk
IngestEmbed_PerChunk ==
    /\ pc = "chunked"
    /\ \E data \in ProviderDataFor(Len(locals.chunks_text)) :
          LET embeddings ==
                  EmbedTexts([service.embedding EXCEPT !.embed_data = data],
                             locals.chunks_text)
          IN  IF embeddings.raised
              THEN /\ response' = embeddings
                   /\ pc' = "raised"
                   /\ UNCHANGED locals
              ELSE /\ locals' = [text |-> locals.text, document |-> locals.document,
                                 chunks_text |-> locals.chunks_text,
                                 embeddings |-> embeddings.value]
                   /\ pc' = "embedded"
                   /\ UNCHANGED response
    /\ calls' = calls \o [i \in 1..Len(locals.chunks_text) |-> "embed_texts"]
    /\ UNCHANGED <<chatboxes, documents, chunks, service, engine_ok, request>>

\* lines 67, 148, 221
IngestEmbed ==
    /\ pc = "chunked"
    /\ \E data \in ProviderDataFor(Len(locals.chunks_text)) :
          LET embeddings ==
                  EmbedTexts([service.embedding EXCEPT !.embed_data = data],
                             locals.chunks_text)
          IN  IF embeddings.raised
              THEN /\ response' = embeddings
                   /\ pc' = "raised"
                   /\ UNCHANGED locals
              ELSE /\ locals' = [text |-> locals.text, document |-> locals.document,
                                 chunks_text |-> locals.chunks_text,
                                 embeddings |-> embeddings.value]
                   /\ pc' = "embedded"
                   /\ UNCHANGED response
    /\ calls' = Append(calls, "embed_texts")
    /\ UNCHANGED <<chatboxes, documents, chunks, service, engine_ok, request>>

\* what session.commit() raises when the engine rejects the insert
SQLAlchemyError(message) == [type |-> "SQLAlchemyError", message |-> message]

\* variant: a failed insert of the chunks taking the run's document with it
IngestStoreChunks_Rollback ==
    /\ pc = "embedded"
    /\ LET new == NewChunks(locals.document, locals.chunks_text, locals.embeddings)
       IN  IF engine_ok
           THEN /\ chunks' = CreateMany(chunks, new)
                /\ response' = Returned([document |-> locals.document,
                                         chunks_created |-> Len(new)])
                /\ pc' = "done"
                /\ UNCHANGED documents
           ELSE /\ response' = Raised(SQLAlchemyError("commit failed"))
                /\ pc' = "raised"
                /\ documents' = SubSeq(documents, 1, Len(documents) - 1)
                /\ UNCHANGED chunks
    /\ calls' = Append(calls, "chunk_repo.create_many")
    /\ UNCHANGED <<chatboxes, service, engine_ok, request, locals>>

\* lines 69-85, 150-164, 223-237; engine_ok is whether the engine accepts
\* the commit of create_many
IngestStoreChunks ==
    /\ pc = "embedded"
    /\ LET new == NewChunks(locals.document, locals.chunks_text, locals.embeddings)
       IN  IF engine_ok
           THEN /\ chunks' = CreateMany(chunks, new)
                /\ response' = Returned([document |-> locals.document,
                                         chunks_created |-> Len(new)])
                /\ pc' = "done"
           ELSE /\ response' = Raised(SQLAlchemyError("commit failed"))
                /\ pc' = "raised"
                /\ UNCHANGED chunks
    /\ calls' = Append(calls, "chunk_repo.create_many")
    /\ UNCHANGED <<chatboxes, documents, service, engine_ok, request, locals>>

NextIngest ==
    IngestAcquire \/ IngestCreateDocument \/ IngestEmbed \/ IngestStoreChunks

SpecIngest == InitIngest /\ [][NextIngest]_vars

----------------------------------------------------------------------------
(* Claims on ingestion, checked under SpecIngest *)

\* under SpecChunk: the function ChunkText gives what the steps of chunk_text
\* return
ChunkTextAgreesWithSteps ==
    pc = "done" => response = Returned(ChunkText(service, request.text))

IngestFinished == pc \in {"done", "raised"}

\* the chunker ran and yielded no chunk
ChunkerYieldedNothing == Invoked("chunk_text") /\ locals.chunks_text = <<>>

\* C20: when the chunker yields no chunks for the raw text, ingest_text,
\* ingest_url and ingest_file return (document, 0): the Document row is
\* persisted, the embedder is not called and no chunk row is written.
C20_NoChunksIsSuccess ==
    ChunkerYieldedNothing =>
        /\ pc = "done"
        /\ response = Returned([document |-> locals.document, chunks_created |-> 0])
        /\ documents # <<>>
        /\ documents[Len(documents)] = locals.document
        /\ locals.document.raw_content = locals.text
        /\ ~Invoked("embed_texts")
        /\ ~Invoked("chunk_repo.create_many")
        /\ chunks = <<>>

\* ingest_text of a text of whitespace, a document being there already
C20_Witness ==
    /\ pc = "done"
    /\ request.op = "ingest_text"
    /\ request.text # <<>>
    /\ ChunkerYieldedNothing
    /\ Len(documents) = 2
    /\ response.value.chunks_created = 0

\* ingest_file of a text with enough letters, which a chunker whose overlap
\* is not below its chunk size loses
FileWithNoChunks ==
    /\ pc = "done"
    /\ request.op = "ingest_file"
    /\ ChunkerYieldedNothing

\* ingest_url never meets the case: the page text starts with a letter
UrlAlwaysHasChunks ==
    (request.op = "ingest_url" /\ Invoked("chunk_text")) => ~ChunkerYieldedNothing

\* the run returned (document, count)
IngestSucceeded == pc = "done" /\ ~response.raised

\* the stored chunk rows of document d, in storage order
ChunksOf(d) ==
    LET OfDocument(row) == row.document_id = d
    IN  SelectSeq(chunks, OfDocument)

\* the stored rows of the run's document are one per chunker output, in order
OneRowPerChunk(chunks_text) ==
    LET rows == ChunksOf(response.value.document.id)
    IN  /\ response.value.chunks_created = Len(chunks_text)
        /\ Len(rows) = Len(chunks_text)
        /\ \A i \in DOMAIN rows :
              /\ rows[i].chunk_index = i - 1
              /\ rows[i].content = chunks_text[i]
              /\ rows[i].chatbox_id = request.chatbox_id
              /\ Invoked("embed_texts") => rows[i].embedding = locals.embeddings[i]

\* C21: after every successful ingestion the chunk rows of the new document
\* are exactly one per chunk of chunk_text(rawText): the returned count is
\* the number of chunks, the chunk_index values are 0..count-1, and the row
\* of index i holds the i-th chunk text and the i-th vector, whatever the
\* embedder returned.
C21_Original_OneRowPerChunkerOutput ==
    IngestSucceeded =>
        OneRowPerChunk(ChunkText(service.chunking, locals.text))

\* the same for the runs in which the embedder returned one vector per chunk
OneRowPerChunkWhenEmbedderComplete ==
    (IngestSucceeded
        /\ (Invoked("embed_texts") =>
               Len(locals.embeddings) = Len(locals.chunks_text))) =>
        OneRowPerChunk(ChunkText(service.chunking, locals.text))

\* the run called embed_texts and the provider call failed
EmbeddingCallFailed ==
    /\ Invoked("embed_texts")
    /\ service.embedding.openai_client
    /\ ~service.embedding.embed_ok

\* C22: when the embedding call of an ingestion run fails, the run ends with
\* ExternalServiceError (service "openai") and no chunk row of its document
\* is persisted, neither all of them nor a part.
C22_EmbeddingFailureStoresNoChunk ==
    EmbeddingCallFailed =>
        /\ pc = "raised"
        /\ response.raised
        /\ response.exc.type = "ExternalServiceError"
        /\ response.exc.service = "openai"
        /\ ~Invoked("chunk_repo.create_many")
        /\ ChunksOf(locals.document.id) = <<>>

\* a run whose text gave several chunks and whose embedding call failed
C22_Witness ==
    /\ pc = "raised"
    /\ EmbeddingCallFailed
    /\ Len(locals.chunks_text) >= 2
    /\ chunks = <<>>

UnsupportedFile ==
    /\ request.op = "ingest_file"
    /\ request.mime_type \notin {"text/plain", "application/pdf"}
    /\ request.filename \notin {"a.txt", "a.pdf"}

FetchFails == request.op = "ingest_url" /\ request.fetch = "RequestException"

PageTooShort ==
    /\ request.op = "ingest_url"
    /\ request.fetch = "ok"
    /\ Len(Trimmed(request.page)) < MinExtractableLen

\* C23: acquisition failures are reported before anything is written:
\* ingest_file with an unsupported type raises ValidationError, ingest_url
\* raises ExternalServiceError (service "url_fetch") when the fetch fails and
\* ValidationError when the extracted text is below the minimum length; in
\* each case no Document is created, the chunker and the embedder are not
\* invoked and no chunk is stored.
C23_AcquisitionFailsBeforeWrites ==
    [][(pc = "start" /\ (UnsupportedFile \/ FetchFails \/ PageTooShort)) =>
          /\ pc' = "raised"
          /\ response'.raised
          /\ IF FetchFails
             THEN /\ response'.exc.type = "ExternalServiceError"
                  /\ response'.exc.service = "url_fetch"
             ELSE response'.exc.type = "ValidationError"
          /\ documents' = documents
          /\ chunks' = chunks
          /\ calls' = <<>>]_vars

\* a page of 9 letters, rejected with the collection's document unchanged
C23_Witness ==
    /\ pc = "raised"
    /\ PageTooShort
    /\ request.page # <<>>
    /\ response.exc.type = "ValidationError"
    /\ Len(documents) = 1
    /\ calls = <<>>

\* an upload of an unsupported type, rejected
UnsupportedFileRejected ==
    pc = "raised" /\ UnsupportedFile /\ response.exc.type = "ValidationError"

----------------------------------------------------------------------------
(* Claims on the failures of the pipelines *)

\* C24: every failure of query that reaches the HTTP boundary is a
\* HelperlyException subtype, mapped to its own status code, never a bare
\* exception left to the generic 500 handler.
C24_Original_QueryFailuresAreTyped ==
    (QueryFinished /\ response.raised) => IsHelperlyException(response.exc)

\* the failures ingestion raises itself are typed; a failed commit of the
\* chunks is not
IngestFailuresAreTyped ==
    (IngestFinished /\ response.raised /\ ~Invoked("chunk_repo.create_many")) =>
        IsHelperlyException(response.exc)

----------------------------------------------------------------------------
(* Claims on the chunker's loop, checked under SpecChunkLive *)

\* C25: chunk_text terminates on every text and every chunk size and
\* overlap, overlap = chunkSize and overlap > chunkSize included: an
\* iteration that stays in the loop moves start strictly forward, and the
\* call reaches its return.
C25_ChunkTextTerminates ==
    /\ [][(pc = "loop" /\ pc' = "loop") =>
             (locals'.start > locals.start /\ locals.start < locals.text_length)]_vars
    /\ <>(pc = "done")

\* a service built with overlap above chunk size that has returned from a
\* text of several letters after one iteration
C25_Witness ==
    /\ pc = "done"
    /\ request.chunk_size >= 1
    /\ request.chunk_overlap > request.chunk_size
    /\ Len(request.text) >= 2
    /\ ~AllWhitespace(request.text)
    /\ locals.start < 0

----------------------------------------------------------------------------
(* Claims on ingestion's use of the embedder, checked under SpecIngest *)

CallCount(name) == Cardinality({k \in DOMAIN calls : calls[k] = name})

\* C26: an ingestion run calls embed_texts at most once, and exactly once
\* when the chunker produced a chunk, with all the chunks of the document in
\* chunk order; the number of calls does not grow with the number of chunks
\* and a failed call is not retried.
C26_OneBatchedEmbedCall ==
    /\ CallCount("embed_texts") <= 1
    /\ (IngestFinished /\ Invoked("chunk_text")) =>
          (CallCount("embed_texts") = 1 <=> locals.chunks_text # <<>>)
    /\ (pc \in {"embedded", "done"} /\ Invoked("embed_texts")
            /\ ~service.embedding.openai_client) =>
          LET chunks_text == ChunkText(service.chunking, locals.text)
          IN  locals.embeddings =
                  [i \in 1..Len(chunks_text) |->
                      StubEmbedding(chunks_text[i], service.embedding.hash_seed)]

\* a finished run over at least three chunks, one call
C26_Witness ==
    /\ pc = "done"
    /\ Len(locals.chunks_text) >= 3
    /\ CallCount("embed_texts") = 1
    /\ Len(chunks) >= 3

\* a run whose single call failed
FailedCallNotRetried ==
    pc = "raised" /\ EmbeddingCallFailed /\ CallCount("embed_texts") = 1

----------------------------------------------------------------------------
(* api/routes/chatboxes.py: two concurrent update_chatbox requests          *)
(*                                                                         *)
(* Each request has its own database session. get_by_id loads the row into *)
(* the session; the handler assigns the given fields to that copy and      *)
(* validates the copy; repo.update commits, and the flush writes the       *)
(* attributes whose value differs from the loaded one. Nothing locks the   *)
(* row between the load and the commit. request[p], pc[p], locals[p] and   *)
(* response[p] belong to request p; both requests name chatbox 1.          *)

RaceRows ==
    {c \in [id : {1}, organization_id : {CurrentOrgId},
            allowed_domains : CrudDomainLists,
            enforce_allowed_domains : BOOLEAN] : ~MissingAllowedDomains(c)}

\* session.commit() of a loaded and then modified object: an UPDATE of the
\* changed columns
CommitChanged(row, loaded, chatbox) ==
    [row EXCEPT
        !.allowed_domains =
            IF chatbox.allowed_domains # loaded.allowed_domains
            THEN chatbox.allowed_domains ELSE @,
        !.enforce_allowed_domains =
            IF chatbox.enforce_allowed_domains # loaded.enforce_allowed_domains
            THEN chatbox.enforce_allowed_domains ELSE @]

InitChatboxRace ==
    /\ chatboxes \in {<<c>> : c \in RaceRows}
    /\ documents = <<>>
    /\ chunks = <<>>
    /\ service = StubService(0)
    /\ engine_ok = TRUE
    /\ request \in [Processes -> ChatboxUpdate]
    /\ pc = [p \in Processes |-> "start"]
    /\ calls = <<>>
    /\ response = [p \in Processes |-> Returned(NoneList)]
    /\ locals = [p \in Processes |-> NoneList]

\* update_chatbox, line 105
UpdateLoad(p) ==
    /\ pc[p] = "start"
    /\ locals' = [locals EXCEPT ![p] = GetChatboxById(chatboxes, 1).value]
    /\ pc' = [pc EXCEPT ![p] = "loaded"]
    /\ UNCHANGED <<chatboxes, documents, chunks, service, engine_ok, request, calls,
                   response>>

\* update_chatbox, lines 107-124
UpdateValidateAndCommit(p) ==
    /\ pc[p] = "loaded"
    /\ LET chatbox == ApplyUpdate(locals[p], request[p])
       IN  IF MissingAllowedDomains(chatbox)
           THEN /\ response' = [response EXCEPT ![p] = Raised(ValidationError(
                       "allowed_domains is required when enforce_allowed_domains is True"))]
                /\ pc' = [pc EXCEPT ![p] = "raised"]
                /\ UNCHANGED chatboxes
           ELSE /\ chatboxes' = [chatboxes EXCEPT
                                    ![1] = CommitChanged(@, locals[p], chatbox)]
                /\ response' = [response EXCEPT ![p] = Returned(chatboxes'[1])]
                /\ pc' = [pc EXCEPT ![p] = "done"]
    /\ UNCHANGED <<documents, chunks, service, engine_ok, request, calls, locals>>

NextChatboxRace ==
    \E p \in Processes : UpdateLoad(p) \/ UpdateValidateAndCommit(p)

SpecChatboxRace == InitChatboxRace /\ [][NextChatboxRace]_vars

\* C27: under every interleaving of concurrent update_chatbox requests on
\* one chatbox, every committed row has a non-empty allowed_domains list
\* whenever its enforce_allowed_domains is true.
C27_Original_CommittedRowsStayValid ==
    \A i \in DOMAIN chatboxes : EnforcingHasDomains(chatboxes[i])

\* a request whose loaded copy is still the committed row commits a valid row
ValidWhenCopyIsCurrent ==
    [][\A p \in Processes :
          (pc[p] = "loaded" /\ pc'[p] = "done" /\ locals[p] = chatboxes[1]) =>
              EnforcingHasDomains(chatboxes'[1])]_vars

----------------------------------------------------------------------------
(* services/ingestion_service.py: two concurrent ingest_text runs          *)
(*                                                                         *)
(* Each run has its own session and repositories and shares the chunker    *)
(* and embedder singletons. A run can be suspended at its awaits: the      *)
(* commit of the document, the embedding call and the commit of the        *)
(* chunks. request[p], pc[p], locals[p], calls[p] and response[p] belong   *)
(* to run p; both runs ingest into chatbox 1.                              *)

RaceTexts ==
    {Spaces(1), Body(MinExtractableLen), Spaces(1) \o Body(MinExtractableLen + 2)}

RaceRequests ==
    [op : {"ingest_text"}, chatbox_id : {1}, text : RaceTexts, source_name : {NoneStr}]

InitIngestRace ==
    /\ chatboxes = <<>>
    /\ documents = <<>>
    /\ chunks = <<>>
    /\ service \in [chunking : ChunkerSettings, embedding : IngestEmbeddingServices]
    /\ engine_ok = TRUE
    /\ request \in [Processes -> RaceRequests]
    /\ pc = [p \in Processes |-> "start"]
    /\ calls = [p \in Processes |-> <<>>]
    /\ response = [p \in Processes |-> Returned(NoneStr)]
    /\ locals = [p \in Processes |-> <<>>]

\* ingest_text, lines 48-64
RaceCreateDocument(p) ==
    /\ pc[p] = "start"
    /\ documents' = DocumentCreate(documents,
                                   NewDocument(request[p], request[p].text))
    /\ LET document == documents'[Len(documents')]
           chunks_text == ChunkText(service.chunking, request[p].text)
       IN  /\ locals' = [locals EXCEPT
                            ![p] = [text |-> request[p].text, document |-> document,
                                    chunks_text |-> chunks_text]]
           /\ calls' = [calls EXCEPT
                           ![p] = @ \o <<"document_repo.create", "chunk_text">>]
           /\ IF NoChunks(chunks_text)
              THEN /\ response' = [response EXCEPT
                                      ![p] = Returned([document |-> document,
                                                       chunks_created |-> 0])]
                   /\ pc' = [pc EXCEPT ![p] = "done"]
              ELSE /\ pc' = [pc EXCEPT ![p] = "chunked"]
                   /\ UNCHANGED response
    /\ UNCHANGED <<chatboxes, chunks, service, engine_ok, request>>

\* ingest_text, line 67
RaceEmbed(p) ==
    /\ pc[p] = "chunked"
    /\ \E data \in ProviderDataFor(Len(locals[p].chunks_text)) :
          LET embeddings ==
                  EmbedTexts([service.embedding EXCEPT !.embed_data = data],
                             locals[p].chunks_text)
          IN  IF embeddings.raised
              THEN /\ response' = [response EXCEPT ![p] = embeddings]
                   /\ pc' = [pc EXCEPT ![p] = "raised"]
                   /\ UNCHANGED locals
              ELSE /\ locals' = [locals EXCEPT
                                   ![p] = [text |-> @.text, document |-> @.document,
                                           chunks_text |-> @.chunks_text,
                                           embeddings |-> embeddings.value]]
                   /\ pc' = [pc EXCEPT ![p] = "embedded"]
                   /\ UNCHANGED response
    /\ calls' = [calls EXCEPT ![p] = Append(@, "embed_texts")]
    /\ UNCHANGED <<chatboxes, documents, chunks, service, engine_ok, request>>

\* ingest_text, lines 69-85
RaceStoreChunks(p) ==
    /\ pc[p] = "embedded"
    /\ LET new == NewChunks(locals[p].document, locals[p].chunks_text,
                            locals[p].embeddings)
       IN  /\ chunks' = CreateMany(chunks, new)
           /\ response' = [response EXCEPT
                              ![p] = Returned([document |-> locals[p].document,
                                               chunks_created |-> Len(new)])]
    /\ calls' = [calls EXCEPT ![p] = Append(@, "chunk_repo.create_many")]
    /\ pc' = [pc EXCEPT ![p] = "done"]
    /\ UNCHANGED <<chatboxes, documents, service, engine_ok, request, locals>>

NextIngestRace ==
    \E p \in Processes :
        RaceCreateDocument(p) \/ RaceEmbed(p) \/ RaceStoreChunks(p)

SpecIngestRace == InitIngestRace /\ [][NextIngestRace]_vars

----------------------------------------------------------------------------
(* Claims on concurrent ingestion, checked under SpecIngestRace *)

HasDocument(p) == pc[p] # "start"

\* C28: under every interleaving of two concurrent ingestion runs into one
\* collection, the two documents are different, every stored chunk lies
\* under the document id and collection id of the run that built it, a
\* finished run's document has the chunk_index values 0..n-1 for the count n
\* the run returned, and no step changes or removes a stored chunk.
C28_ConcurrentRunsKeepTheirChunks ==
    /\ [](/\ (HasDocument(1) /\ HasDocument(2)) =>
                locals[1].document.id # locals[2].document.id
          /\ \A k \in DOMAIN chunks :
                \E p \in Processes :
                    /\ pc[p] = "done"
                    /\ chunks[k].document_id = locals[p].document.id
                    /\ chunks[k].chatbox_id = request[p].chatbox_id
                    /\ chunks[k].content =
                          locals[p].chunks_text[chunks[k].chunk_index + 1]
          /\ \A p \in Processes :
                pc[p] = "done" =>
                    LET rows == ChunksOf(locals[p].document.id)
                    IN  /\ Len(rows) = response[p].value.chunks_created
                        /\ \A i \in DOMAIN rows : rows[i].chunk_index = i - 1)
    /\ [][SubSeq(chunks', 1, Len(chunks)) = chunks]_vars

\* both runs finished with chunks, the run that created its document last
\* having stored its chunks first
C28_Witness ==
    /\ pc[1] = "done" /\ pc[2] = "done"
    /\ ChunksOf(1) # <<>> /\ ChunksOf(2) # <<>>
    /\ chunks[1].document_id = 2

----------------------------------------------------------------------------
(* Claims on the writes of an ingestion run, checked under SpecIngest *)

\* the run created its document and then failed
FailedAfterDocument == pc = "raised" /\ Invoked("document_repo.create")

\* C29: an ingestion run is not atomic across its two writes: the Document
\* is committed before chunking and embedding, so when the embedder or the
\* bulk insert of the chunks fails afterwards, the run's Document stays
\* persisted with zero chunks, and no step of the run removes a document.
C29_DocumentRemainsAfterFailure ==
    /\ [](FailedAfterDocument =>
             /\ locals.document.id \in DOMAIN documents
             /\ documents[locals.document.id] = locals.document
             /\ ChunksOf(locals.document.id) = <<>>
             /\ \/ Invoked("embed_texts") /\ ~Invoked("chunk_repo.create_many")
                    /\ response.exc.type = "ExternalServiceError"
                \/ Invoked("chunk_repo.create_many")
                    /\ response.exc.type = "SQLAlchemyError")
    /\ [][SubSeq(documents', 1, Len(documents)) = documents]_vars

\* a run whose bulk insert failed after the embedder had returned vectors
C29_Witness ==
    /\ FailedAfterDocument
    /\ Invoked("chunk_repo.create_many")
    /\ Len(locals.embeddings) >= 2
    /\ Len(documents) = 2
    /\ chunks = <<>>

\* a run whose embedding call failed, its document persisted
DocumentRemainsAfterEmbedFailure ==
    FailedAfterDocument /\ EmbeddingCallFailed /\ Len(documents) = 1

----------------------------------------------------------------------------
(* Claims on the chunks of chunk_text, checked under SpecChunk *)

\* the service was constructed with 0 < overlap < chunkSize
BuiltWithProperOverlap ==
    /\ request.chunk_overlap >= 1
    /\ request.chunk_size > request.chunk_overlap

\* chunk c occurs in text at offset o
OccursAt(c, text, o) ==
    /\ o + Len(c) <= Len(text)
    /\ SubSeq(text, o + 1, o + Len(c)) = c

\* C30: for 0 < overlap < chunkSize and every text, each returned chunk is
\* non-empty, has no whitespace at either end, is at most chunkSize
\* characters long and is a contiguous substring of the text, and every
\* non-whitespace position of the text lies inside a returned chunk.
C30_ChunksCoverTheText ==
    (pc = "done" /\ BuiltWithProperOverlap) =>
        /\ ~response.raised
        /\ \A k \in DOMAIN response.value :
              LET c == response.value[k]
              IN  /\ c # <<>>
                  /\ c[1] # " " /\ c[Len(c)] # " "
                  /\ Len(c) <= request.chunk_size
                  /\ \E o \in 0..Len(request.text) : OccursAt(c, request.text, o)
        /\ \A i \in DOMAIN request.text :
              request.text[i] # " " =>
                  \E k \in DOMAIN response.value, o \in 0..Len(request.text) :
                      /\ OccursAt(response.value[k], request.text, o)
                      /\ o < i /\ i <= o + Len(response.value[k])

\* a text with whitespace inside, returned as several chunks, one of them
\* trimmed below the chunk size
C30_Witness ==
    /\ pc = "done"
    /\ BuiltWithProperOverlap
    /\ Len(request.text) = MaxTextLen
    /\ \E i \in DOMAIN request.text : request.text[i] = " "
    /\ Len(response.value) >= 2
    /\ \E k \in DOMAIN response.value : Len(response.value[k]) < request.chunk_size

====
